---- MODULE Spec2Model ----
(***************************************************************************)
(* Model of commands/login.go: Login, createSSHCert, writeKeysToSSHDir,    *)
(* writeKeys and fileExists, over an explicit model of the files of the    *)
(* user's ~/.ssh directory.                                                *)
(*                                                                         *)
(* File contents are sequences of one-character strings.  Three kinds of   *)
(* multi-character symbols stand for fields whose inner bytes the code     *)
(* never looks at: "T" (a key-type word), "B<k>" (the base64 blob of the   *)
(* certificate of key k; "B0" is a key the user made) and "K<k>" (the PEM  *)
(* body of the private key k).                                             *)
(***************************************************************************)
EXTENDS Integers, Sequences, FiniteSets, TLC

\* How many times Login is run, one after the other, on the same directory.
MaxLogins == 2

-----------------------------------------------------------------------------
(* Byte-string helpers (Go slices are 0-based, sequences here 1-based).    *)

\* s[n:] of Go.
Drop(s, n) == SubSeq(s, n + 1, Len(s))

\* s[:n] of Go.
Take(s, n) == SubSeq(s, 1, n)

\* bytes.IndexAny / bytes.IndexByte: the first position of s holding a
\* character of cs, 0 when there is none (Go: -1).
IndexAny(s, cs) ==
    IF \E i \in 1..Len(s) : s[i] \in cs
    THEN CHOOSE i \in 1..Len(s) : s[i] \in cs /\ \A j \in 1..(i - 1) : s[j] \notin cs
    ELSE 0

\* The ASCII white space bytes.TrimSpace removes.
WhiteSpace == {" ", "\t", "\n", "\r", "\f"}

\* bytes.TrimSpace: s without its leading and trailing white space.
TrimSpace(s) ==
    IF \A i \in 1..Len(s) : s[i] \in WhiteSpace
    THEN << >>
    ELSE LET first == CHOOSE i \in 1..Len(s) :
                          s[i] \notin WhiteSpace /\ \A j \in 1..(i - 1) : s[j] \in WhiteSpace
             last  == CHOOSE i \in 1..Len(s) :
                          s[i] \notin WhiteSpace /\ \A j \in (i + 1)..Len(s) : s[j] \in WhiteSpace
         IN  SubSeq(s, first, last)

-----------------------------------------------------------------------------
(* Constants of writeKeysToSSHDir and writeKeys.                           *)

\* Mutant: the two basenames in the other order.
CandidatesReversed == <<"id_dsa", "id_ecdsa">>

\* The candidate basenames, in the order the loop visits them.
Candidates == <<"id_ecdsa", "id_dsa">>

seckeyPath(keyFilename) == keyFilename

pubkeyPath(keyFilename) == keyFilename \o ".pub"

\* A file of ~/.ssh that is no candidate.
Unrelated == "authorized_keys"

Paths == {seckeyPath(Candidates[i]) : i \in 1..Len(Candidates)}
            \cup {pubkeyPath(Candidates[i]) : i \in 1..Len(Candidates)}
            \cup {Unrelated}

\* The literal "openpubkey" the parsed comment is compared with and that
\* writeKeys appends after a space.
Marker == <<"o", "p", "e", "n", "p", "u", "b", "k", "e", "y">>

-----------------------------------------------------------------------------
(* ssh.ParseAuthorizedKey, as called on the bytes of an existing public    *)
(* file.  Only the error and the comment are used by the caller.           *)

\* The key blobs that base64-decode to a well-formed public key or
\* certificate: the user's own ("B0") and those this program marshals.
ValidBlobs == {"B" \o ToString(k) : k \in 0..MaxLogins}

Blank == {" ", "\t"}

ParseFailed == [err |-> TRUE, comment |-> << >>]

\* parseAuthorizedKey of x/crypto/ssh: the input starts after the key-type
\* word; the first field is the base64 key, the trimmed remainder is the
\* comment.
parseAuthorizedKey(in0) ==
    LET in        == TrimSpace(in0)
        sp        == IndexAny(in, Blank)
        i         == IF sp = 0 THEN Len(in) ELSE sp - 1
        base64Key == Take(in, i)
    IN  IF Len(base64Key) = 1 /\ base64Key[1] \in ValidBlobs
        THEN [err |-> FALSE, comment |-> TrimSpace(Drop(in, i))]
        ELSE ParseFailed

\* The loop that walks over a leading options field: the 0-based index at
\* which it stops (the first blank outside double quotes, else the last
\* index of the line).
RECURSIVE ScanOptions(_, _, _)
ScanOptions(in, k, inQuote) ==
    IF k > Len(in)
    THEN Len(in) - 1
    ELSE IF ~inQuote /\ in[k] \in Blank
         THEN k - 1
         ELSE ScanOptions(in, k + 1,
                          IF in[k] = "\"" /\ (k = 1 \/ in[k - 1] # "\\")
                          THEN ~inQuote ELSE inQuote)

\* for i < len(in) && (in[i] == ' ' || in[i] == '\t') { i++ }
RECURSIVE SkipBlanks(_, _)
SkipBlanks(in, i) ==
    IF i < Len(in) /\ in[i + 1] \in Blank THEN SkipBlanks(in, i + 1) ELSE i

\* One line of the file, already trimmed, not empty and no "#" comment.
ParseLine(in) ==
    LET sp == IndexAny(in, Blank)
    IN  IF sp = 0
        THEN ParseFailed
        ELSE LET direct == parseAuthorizedKey(Drop(in, sp - 1))
             IN  IF ~direct.err
                 THEN direct
                 ELSE \* no key found after the first word: it may be an options field
                      LET i   == SkipBlanks(in, ScanOptions(in, 1, FALSE))
                          in2 == Drop(in, i)
                          sp2 == IndexAny(in2, Blank)
                      IN  IF i = Len(in) \/ sp2 = 0
                          THEN ParseFailed
                          ELSE parseAuthorizedKey(Drop(in2, sp2 - 1))

\* ssh.ParseAuthorizedKey: the first line that holds a key decides; empty
\* lines, "#" lines and lines without a key are passed over; the error is
\* set when no line holds a key.
RECURSIVE ParseAuthorizedKey(_)
ParseAuthorizedKey(input) ==
    IF Len(input) = 0
    THEN ParseFailed
    ELSE LET nl    == IndexAny(input, {"\n"})
             rest  == IF nl # 0 THEN Drop(input, nl) ELSE << >>
             line0 == IF nl # 0 THEN Take(input, nl - 1) ELSE input
             cr    == IndexAny(line0, {"\r"})
             line1 == IF cr # 0 THEN Take(line0, cr - 1) ELSE line0
             in    == TrimSpace(line1)
         IN  IF Len(in) = 0 \/ in[1] = "#"
             THEN ParseAuthorizedKey(rest)
             ELSE LET r == ParseLine(in)
                  IN  IF ~r.err THEN r ELSE ParseAuthorizedKey(rest)

-----------------------------------------------------------------------------
(* Files.  readable = FALSE is a file that exists but that os.Open cannot   *)
(* open (permission denied).                                               *)

NoFile == [exists |-> FALSE, readable |-> FALSE, mode |-> "none", data |-> << >>]

File(mode, data) == [exists |-> TRUE, readable |-> TRUE, mode |-> mode, data |-> data]

Unreadable(f) == [f EXCEPT !.readable = FALSE]

\* pem.EncodeToMemory(ssh.MarshalPrivateKey(signer, "openpubkey cert"))
PemOf(k) == <<"-----BEGIN", "K" \o ToString(k), "-----END">>

\* ssh.MarshalAuthorizedKey(cert): key type, blob, and the newline it adds.
MarshalAuthorizedKey(k) == <<"T", " ", "B" \o ToString(k), "\n">>

\* A public key line: key type, blob, one space, and the comment bytes.
KeyLine(blob, comment) == <<"T", " ", blob, " ">> \o comment

\* A public key line of a key the user made.
UserLine(comment) == KeyLine("B0", comment)

\* Public files that may be present before the first Login.
InitialPublicData ==
    { UserLine(Marker),                                 \* as writeKeys leaves it
      UserLine(<<"\t">> \o Marker \o <<" ">>),          \* white space around the marker
      UserLine(<<"O">> \o Tail(Marker)),                \* differs in case
      UserLine(Marker \o <<"2">>),                      \* marker is a proper prefix
      UserLine(Take(Marker, 4)),                        \* a proper prefix of the marker
      UserLine(<<"u", "@", "h">>),                      \* somebody's key
      <<"T", " ", "?", " ">> \o Marker,                 \* blob does not decode
      <<"#", "\n", "n", "o", " ", "T", " ", "B0", " ">> \o Marker
                                                        \* comment line, options field
    }

InitialPublicFiles ==
    {NoFile, Unreadable(File("0644", UserLine(<<"u", "@", "h">>)))}
        \cup {File("0644", d) : d \in InitialPublicData}

InitialPrivateFiles ==
    {NoFile, File("0644", PemOf(0)), Unreadable(File("0600", PemOf(0)))}

\* os.Open(fPath): the error it returns.
Open(f) == IF ~f.exists THEN "ErrNotExist"
           ELSE IF ~f.readable THEN "ErrPermission"
           ELSE "nil"

\* Mutant: fileExists reports a file as existing only when os.Open
\* succeeds (err == nil).
fileExistsIfOpened(f) == Open(f) = "nil"

\* fileExists: !errors.Is(err, os.ErrNotExist)
fileExists(f) == Open(f) # "ErrNotExist"

\* os.ReadFile(path)
ReadFile(f) == IF Open(f) = "nil" THEN [err |-> FALSE, data |-> f.data]
               ELSE [err |-> TRUE, data |-> << >>]

\* What one os.WriteFile(name, data, perm) can do to the file:
\*   "ok"        the file holds data; perm applies only when it is created;
\*   "openFail"  the open failed, the file is as it was;
\*   "writeFail" the open created or truncated the file, the write failed.
WriteOutcomes == {"ok", "openFail", "writeFail"}

WriteFile(f, data, perm, outcome) ==
    IF outcome = "openFail"
    THEN f
    ELSE [exists   |-> TRUE,
          readable |-> IF f.exists THEN f.readable ELSE TRUE,
          mode     |-> IF f.exists THEN f.mode ELSE perm,
          data     |-> IF outcome = "ok" THEN data ELSE << >>]

-----------------------------------------------------------------------------
(* State.                                                                  *)

VARIABLES
    fs,            \* path -> file: the files of ~/.ssh
    fs0,           \* fs as it was when the running Login was called
    run,           \* the number of the running Login (1, 2, ...)
    pc,            \* the call Login is about to make, "done" once it returned
    signer,        \* Login: the key pair of util.GenKeyPair (0: none yet)
    pkt,           \* createSSHCert: the key the PK token is bound to
    cert,          \* createSSHCert: the key the unsigned certificate embeds
    sshSigner,     \* createSSHCert: the key of ssh.NewSignerFromSigner
    signerMas,     \* createSSHCert: the key of ssh.NewSignerWithAlgorithms
    sshCert,       \* createSSHCert: the signed certificate
    certBytes,     \* the certificate bytes handed to writeKeysToSSHDir
    seckeySshPem,  \* the private-key bytes handed to writeKeysToSSHDir
    idx,           \* writeKeysToSSHDir: position of the loop in Candidates
    args,          \* writeKeys: its seckeyPath and pubkeyPath arguments
    examined,      \* the candidates the loop body ran for, in order
    reads,         \* the paths os.ReadFile was called on
    writes,        \* the os.WriteFile calls made, in order, with their outcome
    ret            \* what Login returned: << >> is nil, else the error chain

vars == <<fs, fs0, run, pc, signer, pkt, cert, sshSigner, signerMas, sshCert,
          certBytes, seckeySshPem, idx, args, examined, reads, writes, ret>>

NoCert == [key |-> 0, signedBy |-> 0]
NoArgs == [seckeyPath |-> "", pubkeyPath |-> ""]

Init ==
    /\ fs \in [Paths -> InitialPublicFiles \cup InitialPrivateFiles]
    /\ \A i \in 1..Len(Candidates) :
          /\ fs[seckeyPath(Candidates[i])] \in InitialPrivateFiles
          /\ fs[pubkeyPath(Candidates[i])] \in InitialPublicFiles
    /\ fs[Unrelated] = File("0644", UserLine(<<"u", "@", "h">>))
    /\ fs0 = fs
    /\ run = 1
    /\ pc = "GenKeyPair"
    /\ signer = 0 /\ pkt = 0 /\ cert = 0 /\ sshSigner = 0 /\ signerMas = 0
    /\ sshCert = NoCert
    /\ certBytes = << >> /\ seckeySshPem = << >>
    /\ idx = 0 /\ args = NoArgs /\ examined = << >>
    /\ reads = {} /\ writes = << >>
    /\ ret = << >>

-----------------------------------------------------------------------------
(* Login and createSSHCert.                                                *)

\* fmt.Errorf(msg + ": %w", err)
Wrap(msg, err) == <<msg>> \o err

\* return of Login
Return(err) == ret' = err /\ pc' = "done"

\* Mutant: the error of a step of createSSHCert is dropped and Login goes on
\* to writeKeysToSSHDir.
CertFailsSwallowed(op) == pc' = "UserHomeDir" /\ UNCHANGED ret

\* A step of createSSHCert that fails: createSSHCert returns the error as it
\* is, Login wraps it.
CertFails(op) == Return(Wrap("failed to generate SSH cert", <<op>>))

\* signer, err := util.GenKeyPair(alg)
GenKeyPair ==
    /\ pc = "GenKeyPair"
    /\ \/ /\ signer' = run
          /\ pc' = "OidcAuth"
          /\ UNCHANGED ret
       \/ /\ Return(Wrap("failed to generate keypair", <<"GenKeyPair">>))
          /\ UNCHANGED signer
    /\ UNCHANGED <<fs, fs0, run, pkt, cert, sshSigner, signerMas, sshCert,
                   certBytes, seckeySshPem, idx, args, examined, reads, writes>>

\* pkt, err := client.OidcAuth(cxt, signer, alg, map[string]any{}, gqFlag)
OidcAuth ==
    /\ pc = "OidcAuth"
    /\ \/ /\ pkt' = signer
          /\ pc' = "sshcertNew"
          /\ UNCHANGED ret
       \/ /\ CertFails("OidcAuth")
          /\ UNCHANGED pkt
    /\ UNCHANGED <<fs, fs0, run, signer, cert, sshSigner, signerMas, sshCert,
                   certBytes, seckeySshPem, idx, args, examined, reads, writes>>

\* cert, err := sshcert.New(pkt, principals)
sshcertNew ==
    /\ pc = "sshcertNew"
    /\ \/ /\ cert' = pkt
          /\ pc' = "NewSignerFromSigner"
          /\ UNCHANGED ret
       \/ /\ CertFails("sshcert.New")
          /\ UNCHANGED cert
    /\ UNCHANGED <<fs, fs0, run, signer, pkt, sshSigner, signerMas, sshCert,
                   certBytes, seckeySshPem, idx, args, examined, reads, writes>>

\* Mutant: the SSH signer is made from a second key pair, not from the one
\* given to OidcAuth.
NewSignerFromOtherKey ==
    /\ pc = "NewSignerFromSigner"
    /\ \/ /\ sshSigner' = signer + MaxLogins
          /\ pc' = "NewSignerWithAlgorithms"
          /\ UNCHANGED ret
       \/ /\ CertFails("NewSignerFromSigner")
          /\ UNCHANGED sshSigner
    /\ UNCHANGED <<fs, fs0, run, signer, pkt, cert, signerMas, sshCert,
                   certBytes, seckeySshPem, idx, args, examined, reads, writes>>

\* sshSigner, err := ssh.NewSignerFromSigner(signer)
NewSignerFromSigner ==
    /\ pc = "NewSignerFromSigner"
    /\ \/ /\ sshSigner' = signer
          /\ pc' = "NewSignerWithAlgorithms"
          /\ UNCHANGED ret
       \/ /\ CertFails("NewSignerFromSigner")
          /\ UNCHANGED sshSigner
    /\ UNCHANGED <<fs, fs0, run, signer, pkt, cert, signerMas, sshCert,
                   certBytes, seckeySshPem, idx, args, examined, reads, writes>>

\* signerMas, err := ssh.NewSignerWithAlgorithms(sshSigner, {KeyAlgoECDSA256})
NewSignerWithAlgorithms ==
    /\ pc = "NewSignerWithAlgorithms"
    /\ \/ /\ signerMas' = sshSigner
          /\ pc' = "SignCert"
          /\ UNCHANGED ret
       \/ /\ CertFails("NewSignerWithAlgorithms")
          /\ UNCHANGED signerMas
    /\ UNCHANGED <<fs, fs0, run, signer, pkt, cert, sshSigner, sshCert,
                   certBytes, seckeySshPem, idx, args, examined, reads, writes>>

\* sshCert, err := cert.SignCert(signerMas)
SignCert ==
    /\ pc = "SignCert"
    /\ \/ /\ sshCert' = [key |-> cert, signedBy |-> signerMas]
          /\ pc' = "MarshalAuthorizedKey"
          /\ UNCHANGED ret
       \/ /\ CertFails("SignCert")
          /\ UNCHANGED sshCert
    /\ UNCHANGED <<fs, fs0, run, signer, pkt, cert, sshSigner, signerMas,
                   certBytes, seckeySshPem, idx, args, examined, reads, writes>>

\* Mutant: the newline ssh.MarshalAuthorizedKey adds is kept.
KeepNewline(b) == b

\* certBytes := ssh.MarshalAuthorizedKey(sshCert); certBytes[:len(certBytes)-1]
StripNewline(b) == Take(b, Len(b) - 1)

MarshalCert ==
    /\ pc = "MarshalAuthorizedKey"
    /\ certBytes' = StripNewline(MarshalAuthorizedKey(sshCert.key))
    /\ pc' = "MarshalPrivateKey"
    /\ UNCHANGED <<fs, fs0, run, signer, pkt, cert, sshSigner, signerMas, sshCert,
                   seckeySshPem, idx, args, examined, reads, writes, ret>>

\* seckeySsh, err := ssh.MarshalPrivateKey(signer, "openpubkey cert");
\* pem.EncodeToMemory(seckeySsh); createSSHCert returns to Login
MarshalPrivateKey ==
    /\ pc = "MarshalPrivateKey"
    /\ \/ /\ seckeySshPem' = PemOf(signer)
          /\ pc' = "UserHomeDir"
          /\ UNCHANGED ret
       \/ /\ CertFails("MarshalPrivateKey")
          /\ UNCHANGED seckeySshPem
    /\ UNCHANGED <<fs, fs0, run, signer, pkt, cert, sshSigner, signerMas, sshCert,
                   certBytes, idx, args, examined, reads, writes>>

-----------------------------------------------------------------------------
(* writeKeysToSSHDir and writeKeys.                                        *)

\* Mutant: Login does not check the error of writeKeysToSSHDir.
InstallFailsSwallowed(err) == Return(<< >>)

\* return of writeKeysToSSHDir with an error: Login wraps it.
InstallFails(err) == Return(Wrap("failed to write SSH keys to filesystem", err))

NoSlotError == <<"no default ssh key file free for openpubkey">>

\* The *PathError of a failed os.WriteFile.
PathError(path) == <<"WriteFile", path>>

\* homePath, err := os.UserHomeDir(); the loop starts at the first candidate
UserHomeDir ==
    /\ pc = "UserHomeDir"
    /\ \/ /\ idx' = 1
          /\ pc' = "scan"
          /\ UNCHANGED ret
       \/ /\ InstallFails(<<"UserHomeDir">>)
          /\ UNCHANGED idx
    /\ UNCHANGED <<fs, fs0, run, signer, pkt, cert, sshSigner, signerMas, sshCert,
                   certBytes, seckeySshPem, args, examined, reads, writes>>

\* certBytes = append(certBytes, []byte(" openpubkey")...)
WithMarker(b) == b \o <<" ">> \o Marker

\* Every content a public key file holds in some state: the initial ones, an
\* installed certificate line, and the empty file of a failed write.
PublicFileContents ==
    InitialPublicData \cup {<< >>}
        \cup {WithMarker(StripNewline(MarshalAuthorizedKey(k))) : k \in 1..MaxLogins}

\* ssh.ParseAuthorizedKey on each of those contents, computed once.
ParsedKeyFile == [data \in PublicFileContents |-> ParseAuthorizedKey(data)]

\* Mutant: strings.HasPrefix(comment, "openpubkey")
IsOwnedByPrefix(comment) ==
    Len(comment) >= Len(Marker) /\ Take(comment, Len(Marker)) = Marker

\* Mutant: the comment is compared with the comment of the private key,
\* "openpubkey cert".
IsOwnedPrivateComment(comment) == comment = Marker \o <<" ", "c", "e", "r", "t">>

\* if comment == "openpubkey"
IsOwned(comment) == comment = Marker

\* Mutant: the loop body without "else if !fileExists(pubkeyPath)".
ExamineWithoutOrphanCheck(sec, pub) ==
    IF ~fileExists(sec)
    THEN [write |-> TRUE, read |-> FALSE]
    ELSE LET sshPubkey == ReadFile(pub)
         IN  IF sshPubkey.err
             THEN [write |-> FALSE, read |-> TRUE]
             ELSE LET parsed == ParsedKeyFile[sshPubkey.data]
                  IN  IF parsed.err
                      THEN [write |-> FALSE, read |-> TRUE]
                      ELSE [write |-> IsOwned(parsed.comment), read |-> TRUE]

\* Mutant: a public file that cannot be read or parsed is taken as free to
\* overwrite.
ExamineFailureIsFree(sec, pub) ==
    IF ~fileExists(sec)
    THEN [write |-> TRUE, read |-> FALSE]
    ELSE IF ~fileExists(pub)
    THEN [write |-> FALSE, read |-> FALSE]
    ELSE LET sshPubkey == ReadFile(pub)
         IN  IF sshPubkey.err
             THEN [write |-> TRUE, read |-> TRUE]
             ELSE LET parsed == ParsedKeyFile[sshPubkey.data]
                  IN  IF parsed.err
                      THEN [write |-> TRUE, read |-> TRUE]
                      ELSE [write |-> IsOwned(parsed.comment), read |-> TRUE]

\* The body of the loop for one candidate, given its two files: whether it
\* calls writeKeys (else it goes on to the next candidate), and whether it
\* called os.ReadFile on the public file.
Examine(sec, pub) ==
    IF ~fileExists(sec)
    THEN [write |-> TRUE, read |-> FALSE]
    ELSE IF ~fileExists(pub)
    THEN [write |-> FALSE, read |-> FALSE]
    ELSE LET sshPubkey == ReadFile(pub)
         IN  IF sshPubkey.err
             THEN [write |-> FALSE, read |-> TRUE]
             ELSE LET parsed == ParsedKeyFile[sshPubkey.data]
                  IN  IF parsed.err
                      THEN [write |-> FALSE, read |-> TRUE]
                      ELSE [write |-> IsOwned(parsed.comment), read |-> TRUE]

\* Mutant: writeKeys is always called with the paths of the first candidate.
WriteKeysArgsFirst(keyFilename) ==
    [seckeyPath |-> seckeyPath(Candidates[1]), pubkeyPath |-> pubkeyPath(Candidates[1])]

\* The arguments writeKeysToSSHDir passes to writeKeys for a candidate.
WriteKeysArgs(keyFilename) ==
    [seckeyPath |-> seckeyPath(keyFilename), pubkeyPath |-> pubkeyPath(keyFilename)]

\* One iteration of the loop over the candidates.
Scan ==
    /\ pc = "scan"
    /\ idx <= Len(Candidates)
    /\ LET keyFilename == Candidates[idx]
           e == Examine(fs[seckeyPath(keyFilename)], fs[pubkeyPath(keyFilename)])
       IN  /\ examined' = Append(examined, idx)
           /\ reads' = IF e.read THEN reads \cup {pubkeyPath(keyFilename)} ELSE reads
           /\ IF e.write
              THEN /\ args' = WriteKeysArgs(keyFilename)
                   /\ pc' = "writeSeckey"
                   /\ UNCHANGED idx
              ELSE /\ idx' = idx + 1
                   /\ UNCHANGED <<args, pc>>
    /\ UNCHANGED <<fs, fs0, run, signer, pkt, cert, sshSigner, signerMas, sshCert,
                   certBytes, seckeySshPem, writes, ret>>

\* Mutant: the function ends with "return nil".
NoSlotReturnsNil ==
    /\ pc = "scan"
    /\ idx > Len(Candidates)
    /\ Return(<< >>)
    /\ UNCHANGED <<fs, fs0, run, signer, pkt, cert, sshSigner, signerMas, sshCert,
                   certBytes, seckeySshPem, idx, args, examined, reads, writes>>

\* Mutant: the return after the loop is missing for the last index, the
\* function never returns when no slot was found.
NoSlotNeverReturns ==
    /\ pc = "scan"
    /\ idx > Len(Candidates) + 1
    /\ Return(<<"failed to write SSH keys to filesystem",
                "no default ssh key file free for openpubkey">>)
    /\ UNCHANGED <<fs, fs0, run, signer, pkt, cert, sshSigner, signerMas, sshCert,
                   certBytes, seckeySshPem, idx, args, examined, reads, writes>>

\* The loop ran out of candidates:
\* return fmt.Errorf("no default ssh key file free for openpubkey")
NoSlot ==
    /\ pc = "scan"
    /\ idx > Len(Candidates)
    /\ InstallFails(NoSlotError)
    /\ UNCHANGED <<fs, fs0, run, signer, pkt, cert, sshSigner, signerMas, sshCert,
                   certBytes, seckeySshPem, idx, args, examined, reads, writes>>

\* Mutant: the error of the first os.WriteFile is not checked.
WriteSeckeyIgnoringError ==
    /\ pc = "writeSeckey"
    /\ \E outcome \in {"ok", "openFail", "writeFail"} :
          /\ fs' = [fs EXCEPT ![args.seckeyPath] =
                                   WriteFile(@, seckeySshPem, "0600", outcome)]
          /\ writes' = Append(writes, [path |-> args.seckeyPath, outcome |-> outcome])
          /\ pc' = "writePubkey"
    /\ UNCHANGED <<fs0, run, signer, pkt, cert, sshSigner, signerMas, sshCert,
                   certBytes, seckeySshPem, idx, args, examined, reads, ret>>

\* writeKeys: os.WriteFile(seckeyPath, seckeySshPem, 0600); an error is
\* returned at once.
WriteSeckey ==
    /\ pc = "writeSeckey"
    /\ \E outcome \in WriteOutcomes :
          /\ fs' = [fs EXCEPT ![args.seckeyPath] =
                                   WriteFile(@, seckeySshPem, "0600", outcome)]
          /\ writes' = Append(writes, [path |-> args.seckeyPath, outcome |-> outcome])
          /\ IF outcome = "ok"
             THEN pc' = "writePubkey" /\ UNCHANGED ret
             ELSE InstallFails(PathError(args.seckeyPath))
    /\ UNCHANGED <<fs0, run, signer, pkt, cert, sshSigner, signerMas, sshCert,
                   certBytes, seckeySshPem, idx, args, examined, reads>>

\* Mutant: writeKeysToSSHDir calls writeKeys without returning its result,
\* so after a successful write the loop goes on with the next candidate.
WritePubkeyThenContinue ==
    /\ pc = "writePubkey"
    /\ \E outcome \in {"ok", "openFail", "writeFail"} :
          /\ fs' = [fs EXCEPT ![args.pubkeyPath] =
                                   WriteFile(@, certBytes \o <<" ">> \o Marker,
                                             "0777", outcome)]
          /\ writes' = Append(writes, [path |-> args.pubkeyPath, outcome |-> outcome])
          /\ pc' = "scan"
          /\ idx' = idx + 1
    /\ UNCHANGED <<fs0, run, signer, pkt, cert, sshSigner, signerMas, sshCert,
                   certBytes, seckeySshPem, args, examined, reads, ret>>

\* writeKeys: return os.WriteFile(pubkeyPath, certBytes, 0777); Login
\* returns nil when it succeeds.
WritePubkey ==
    /\ pc = "writePubkey"
    /\ \E outcome \in WriteOutcomes :
          /\ fs' = [fs EXCEPT ![args.pubkeyPath] =
                                   WriteFile(@, WithMarker(certBytes), "0777", outcome)]
          /\ writes' = Append(writes, [path |-> args.pubkeyPath, outcome |-> outcome])
          /\ IF outcome = "ok"
             THEN Return(<< >>)
             ELSE InstallFails(PathError(args.pubkeyPath))
    /\ UNCHANGED <<fs0, run, signer, pkt, cert, sshSigner, signerMas, sshCert,
                   certBytes, seckeySshPem, idx, args, examined, reads>>

\* The program is run again on the directory as the last run left it.
NextLogin ==
    /\ pc = "done"
    /\ run < MaxLogins
    /\ run' = run + 1
    /\ fs0' = fs
    /\ pc' = "GenKeyPair"
    /\ signer' = 0 /\ pkt' = 0 /\ cert' = 0 /\ sshSigner' = 0 /\ signerMas' = 0
    /\ sshCert' = NoCert
    /\ certBytes' = << >> /\ seckeySshPem' = << >>
    /\ idx' = 0 /\ args' = NoArgs /\ examined' = << >>
    /\ reads' = {} /\ writes' = << >>
    /\ ret' = << >>
    /\ UNCHANGED fs

Next ==
    \/ GenKeyPair
    \/ OidcAuth
    \/ sshcertNew
    \/ NewSignerFromSigner
    \/ NewSignerWithAlgorithms
    \/ SignCert
    \/ MarshalCert
    \/ MarshalPrivateKey
    \/ UserHomeDir
    \/ Scan
    \/ NoSlot
    \/ WriteSeckey
    \/ WritePubkey
    \/ NextLogin

Spec == Init /\ [][Next]_vars

-----------------------------------------------------------------------------
(* Vocabulary of the properties.                                           *)

Slots == 1..Len(Candidates)

sec(i) == seckeyPath(Candidates[i])
pub(i) == pubkeyPath(Candidates[i])

InSeq(s, x) == \E k \in 1..Len(s) : s[k] = x

\* os.WriteFile was called on the path in this run, or the file differs
\* from what it was when Login was called.
Written(path) == InSeq([k \in 1..Len(writes) |-> writes[k].path], path)
                    \/ fs[path] # fs0[path]

Untouched(i) == ~Written(sec(i)) /\ ~Written(pub(i))

Done == pc = "done"

\* The loop body ran for candidate i and went on to the next candidate.
PassedOver(i) == InSeq(examined, i) => (idx > i /\ args # WriteKeysArgs(Candidates[i]))

\* The loop body ran for candidate i, called writeKeys for it and the loop
\* ended there.
ChosenAt(i) ==
    /\ args = WriteKeysArgs(Candidates[i])
    /\ idx = i
    /\ examined[Len(examined)] = i
    /\ pc \in {"writeSeckey", "writePubkey", "done"}
    /\ \A k \in 1..Len(writes) : writes[k].path \in {sec(i), pub(i)}
    /\ \A p \in Paths \ {sec(i), pub(i)} : fs[p] = fs0[p]
    /\ Done => Len(writes) >= 1

AllWritesOk == \A k \in 1..Len(writes) : writes[k].outcome = "ok"

\* Both files of slot i hold the new key and the new certificate with the
\* marker, and Login returned nil.
Installed(i) ==
    /\ ret = << >>
    /\ Len(writes) = 2
    /\ fs[sec(i)].exists /\ fs[sec(i)].data = seckeySshPem
    /\ fs[pub(i)].exists /\ fs[pub(i)].data = certBytes \o <<" ">> \o Marker

\* The comment ssh.ParseAuthorizedKey finds in a file is the marker.
ParsesAsOwned(f) ==
    /\ f.exists /\ f.readable
    /\ ~ParseAuthorizedKey(f.data).err
    /\ ParseAuthorizedKey(f.data).comment = Marker

\* The comments stored in the public files of the model that are not,
\* byte for byte, the marker.
OtherComments ==
    { <<"\t">> \o Marker \o <<" ">>, <<"O">> \o Tail(Marker), Marker \o <<"2">>,
      Take(Marker, 4), <<"u", "@", "h">> }

\* The file is one key line whose stored comment is c.
HasComment(f, c) == f.exists /\ \E b \in ValidBlobs : f.data = KeyLine(b, c)

-----------------------------------------------------------------------------
\* C1 (as claimed): a slot whose public file existed when Login was called
\* has a file written only if the comment of that public file is the
\* ownership marker; here even in the weakest reading, the comment as
\* ssh.ParseAuthorizedKey returns it.
C1_OverwriteOnlyIfOwned ==
    \A i \in Slots :
        (fs0[pub(i)].exists /\ ~Untouched(i)) => ParsesAsOwned(fs0[pub(i)])

-----------------------------------------------------------------------------
\* C2 (as claimed): a slot whose private file exists and whose public file
\* stores a comment that differs from the marker in any byte, white space
\* included, has neither file written and is passed over.
C2_AnyDifferenceIsForeign ==
    \A i \in Slots : \A c \in OtherComments :
        (fs0[sec(i)].exists /\ HasComment(fs0[pub(i)], c))
            => (Untouched(i) /\ PassedOver(i))

\* C2 (amended): a slot whose private file exists and whose public file
\* stores a comment that, with its leading and trailing white space removed,
\* differs from the marker has neither file written and is passed over.
C2_TrimmedDifferenceIsForeign ==
    \A i \in Slots : \A c \in OtherComments :
        (fs0[sec(i)].exists /\ HasComment(fs0[pub(i)], c) /\ TrimSpace(c) # Marker)
            => (Untouched(i) /\ PassedOver(i))

\* The loop passed over a slot whose comment has the marker as a prefix and
\* went on to write the next one.
C2_Witness ==
    /\ Done /\ ret = << >>
    /\ examined = <<1, 2>>
    /\ fs0[sec(1)].exists /\ HasComment(fs0[pub(1)], Marker \o <<"2">>)
    /\ Untouched(1)

-----------------------------------------------------------------------------
\* C3: when the loop body runs for a candidate whose private file does not
\* exist, writeKeys is called for that candidate, the loop ends there, no
\* other path is written, and when both writes succeed the two files of
\* that candidate hold the new key and certificate.
C3_FirstFreeWins ==
    \A i \in Slots :
        (InSeq(examined, i) /\ ~fs0[sec(i)].exists)
            => /\ ChosenAt(i)
               /\ (Done /\ AllWritesOk) => Installed(i)

\* The second candidate was free and received the key.
C3_Witness ==
    /\ Done /\ examined = <<1, 2>>
    /\ ~fs0[sec(2)].exists
    /\ Installed(2)

-----------------------------------------------------------------------------
\* C4: when the loop body runs for a candidate whose private file exists and
\* whose public file is readable and holds a key line with exactly the
\* marker as its comment, writeKeys is called for that candidate, and when
\* both writes succeed both files hold the new data and Login returns nil.
C4_OwnedIsOverwritten ==
    \A i \in Slots :
        (/\ InSeq(examined, i)
         /\ fs0[sec(i)].exists
         /\ fs0[pub(i)].readable /\ HasComment(fs0[pub(i)], Marker))
            => /\ ChosenAt(i)
               /\ (Done /\ AllWritesOk) => Installed(i)

\* An owned slot that held other data was overwritten.
C4_Witness ==
    /\ Done
    /\ fs0[sec(1)].exists /\ fs0[sec(1)].data # seckeySshPem
    /\ fs0[pub(1)].readable /\ HasComment(fs0[pub(1)], Marker)
    /\ Installed(1)

-----------------------------------------------------------------------------
\* A slot the algorithm may take, judged on the files as they were when
\* Login was called: its private file does not exist, or it exists and the
\* public file can be read and parses with the marker as its comment.
Acceptable(seckey, pubkey) ==
    \/ ~fs0[seckey].exists
    \/ fs0[seckey].exists /\ ParsesAsOwned(fs0[pubkey])

\* C5: id_ecdsa is judged before id_dsa and the first acceptable one is the
\* only slot written: writeKeys is called for id_ecdsa when it is
\* acceptable, for id_dsa only when id_ecdsa is not, never for a slot that
\* is not acceptable, and the files of the other slot stay as they were.
C5_FixedOrder ==
    LET first  == "id_ecdsa"
        second == "id_dsa"
        accFirst  == Acceptable(first, first \o ".pub")
        accSecond == Acceptable(second, second \o ".pub")
        target == IF accFirst THEN first ELSE second
        other  == IF accFirst THEN second ELSE first
    IN  /\ (pc \in {"writeSeckey", "writePubkey"} \/ writes # << >>)
            => /\ accFirst \/ accSecond
               /\ args = [seckeyPath |-> target, pubkeyPath |-> target \o ".pub"]
               /\ \A k \in 1..Len(writes) : writes[k].path \in {target, target \o ".pub"}
               /\ fs[other] = fs0[other]
               /\ fs[other \o ".pub"] = fs0[other \o ".pub"]
        /\ (Done /\ idx >= 1 /\ (accFirst \/ accSecond)) => writes # << >>
        /\ (accFirst /\ examined # << >>) => examined = <<1>>
        /\ examined \in {<< >>, <<1>>, <<1, 2>>}

\* id_ecdsa held somebody's key pair and was left alone, id_dsa was owned
\* and was overwritten.
C5_Witness ==
    /\ Done
    /\ fs0["id_ecdsa"].exists /\ HasComment(fs0["id_ecdsa.pub"], <<"u", "@", "h">>)
    /\ fs0["id_ecdsa.pub"].readable
    /\ fs0["id_dsa"].exists /\ ParsesAsOwned(fs0["id_dsa.pub"])
    /\ fs["id_ecdsa"] = fs0["id_ecdsa"] /\ fs["id_ecdsa.pub"] = fs0["id_ecdsa.pub"]
    /\ ret = << >>
    /\ fs["id_dsa"].data = seckeySshPem

-----------------------------------------------------------------------------
\* C6: a slot whose private file exists and whose public file does not has
\* neither file written, os.ReadFile is not called on the missing public
\* file, and the loop goes on to the next candidate.
C6_OrphanIsPassedOver ==
    \A i \in Slots :
        (fs0[sec(i)].exists /\ ~fs0[pub(i)].exists)
            => /\ Untouched(i)
               /\ pub(i) \notin reads
               /\ PassedOver(i)

\* The loop has just passed over an orphaned private key.
C6_Witness ==
    /\ pc = "scan" /\ idx = 2 /\ examined = <<1>>
    /\ fs0[sec(1)].exists /\ ~fs0[pub(1)].exists
    /\ ~fs[pub(1)].exists

-----------------------------------------------------------------------------
NoneAcceptable == \A i \in Slots : ~Acceptable(sec(i), pub(i))

NoSlotReturned ==
    ret = <<"failed to write SSH keys to filesystem",
            "no default ssh key file free for openpubkey">>

\* C7: when no candidate is acceptable, no file is ever written or changed,
\* the unrelated file included, and once the loop has run Login returns the
\* "no default ssh key file free" error; that error is never what a failed
\* os.WriteFile makes Login return.
C7_SlotExhausted ==
    /\ NoneAcceptable
          => /\ fs = fs0
             /\ writes = << >>
             /\ (Done /\ idx >= 1) => NoSlotReturned
    /\ (Done /\ ~AllWritesOk) => (ret # << >> /\ ~NoSlotReturned)

\* Both slots held readable foreign keys and the loop gave up.
C7_Witness ==
    /\ Done /\ NoSlotReturned /\ examined = <<1, 2>>
    /\ \A i \in Slots : fs0[sec(i)].exists /\ fs0[pub(i)].readable
                           /\ HasComment(fs0[pub(i)], <<"u", "@", "h">>)
    /\ fs = fs0

-----------------------------------------------------------------------------
\* C8: writeKeys writes the private file first and the public file of the
\* same slot second; when the private write fails there is no second
\* os.WriteFile call, the public file is as it was, and Login returns the
\* error of that write.
C8_SecretKeyFirst ==
    /\ Len(writes) <= 2
    /\ Len(writes) >= 1
          => /\ writes[1].path = args.seckeyPath
             /\ args.pubkeyPath = args.seckeyPath \o ".pub"
    /\ Len(writes) = 2
          => /\ writes[1].outcome = "ok"
             /\ writes[2].path = args.pubkeyPath
    /\ (Len(writes) >= 1 /\ writes[1].outcome # "ok")
          => /\ Len(writes) = 1
             /\ Done
             /\ fs[args.pubkeyPath] = fs0[args.pubkeyPath]
             /\ ret = <<"failed to write SSH keys to filesystem",
                        "WriteFile", args.seckeyPath>>

\* The private write failed on a slot that had a public file.
C8_Witness ==
    /\ Done /\ Len(writes) = 1
    /\ writes[1].outcome = "writeFail"
    /\ fs0[args.pubkeyPath].exists
    /\ fs[args.pubkeyPath] = fs0[args.pubkeyPath]

-----------------------------------------------------------------------------
\* The errors Login returns for an os.WriteFile that failed, with nothing
\* said beyond the error of that one call.
PlainWriteErrors ==
    {<<"failed to write SSH keys to filesystem", "WriteFile", p>> : p \in Paths}

\* C9 (as claimed): when the private write succeeded and the public write
\* failed, Login returns an error that reports the inconsistency of the
\* slot, that is, more than the error of the failed write alone.
C9_PartialWriteReported ==
    (Done /\ Len(writes) = 2 /\ writes[2].outcome # "ok")
        => (ret # << >> /\ ret \notin PlainWriteErrors)

-----------------------------------------------------------------------------
PreInstall ==
    {"GenKeyPair", "OidcAuth", "sshcertNew", "NewSignerFromSigner",
     "NewSignerWithAlgorithms", "SignCert", "MarshalAuthorizedKey",
     "MarshalPrivateKey"}

\* Some step before writeKeysToSSHDir has not produced its result.
StepMissing ==
    \/ signer = 0 \/ pkt = 0 \/ cert = 0 \/ sshSigner = 0 \/ signerMas = 0
    \/ sshCert = NoCert \/ certBytes = << >> \/ seckeySshPem = << >>

\* C10: no file is written before writeKeysToSSHDir starts; it starts only
\* when key generation, OidcAuth, binding, signer construction, signing and
\* formatting all succeeded; and when one of them failed Login returns an
\* error and every file is as it was.
C10_NoWriteBeforeInstaller ==
    /\ pc \in PreInstall \cup {"UserHomeDir"} => (fs = fs0 /\ writes = << >>)
    /\ (pc \in {"UserHomeDir", "scan", "writeSeckey", "writePubkey"} \/ writes # << >>)
          => ~StepMissing
    /\ (Done /\ StepMissing)
          => /\ ret # << >>
             /\ ret[1] \in {"failed to generate keypair", "failed to generate SSH cert"}
             /\ fs = fs0 /\ writes = << >>

\* OidcAuth failed in a second Login, on a directory that holds the key of
\* the first.
C10_Witness ==
    /\ Done /\ run = 2
    /\ ret = <<"failed to generate SSH cert", "OidcAuth">>
    /\ \E i \in Slots : fs[sec(i)].data = PemOf(1)
    /\ fs = fs0

-----------------------------------------------------------------------------
\* C11 (as claimed): after every successful installation the private file
\* of the chosen slot has mode 0600, whether it was created by this run or
\* already existed with another mode.
C11_PrivateKeyOwnerOnly ==
    (Done /\ ret = << >>) => fs[args.seckeyPath].mode = "0600"

-----------------------------------------------------------------------------
\* The public file of slot i exists and cannot be read, or it is read and
\* ssh.ParseAuthorizedKey finds no key in it.
ReadOrParseFails(i) ==
    /\ fs0[pub(i)].exists
    /\ \/ ~fs0[pub(i)].readable
       \/ ParseAuthorizedKey(fs0[pub(i)].data).err

\* C12: a slot whose private file exists and whose public file cannot be
\* read or does not parse has neither file written, and the loop goes on to
\* the next candidate instead of returning.
C12_ReadOrParseFailureIsPassedOver ==
    \A i \in Slots :
        (fs0[sec(i)].exists /\ ReadOrParseFails(i))
            => /\ Untouched(i)
               /\ PassedOver(i)
               /\ (InSeq(examined, i) /\ i < Len(Candidates) /\ Done)
                     => InSeq(examined, i + 1)

\* The first slot's public file did not parse although it ends with the
\* marker; the search went on and installed into the second slot.
C12_Witness ==
    /\ Done /\ examined = <<1, 2>>
    /\ fs0[sec(1)].exists /\ fs0[pub(1)].readable
    /\ ParseAuthorizedKey(fs0[pub(1)].data).err
    /\ pub(1) \in reads
    /\ Untouched(1)
    /\ Installed(2)

-----------------------------------------------------------------------------
Writing == {"writeSeckey", "writePubkey"}

WritesOn(paths) == {k \in 1..Len(writes) : writes[k].path \in paths}

\* In one run: at most one os.WriteFile on a private path and at most one
\* on a public path, both of one slot, and only that slot's files differ
\* from what they were.
OneSlotWritten ==
    /\ Cardinality(WritesOn({sec(i) : i \in Slots})) <= 1
    /\ Cardinality(WritesOn({pub(i) : i \in Slots})) <= 1
    /\ \E i \in Slots :
          /\ \A k \in 1..Len(writes) : writes[k].path \in {sec(i), pub(i)}
          /\ \A p \in Paths \ {sec(i), pub(i)} : fs[p] = fs0[p]
    /\ writes # << >> => pc \in {"writePubkey", "done"}

\* C13: in every run writeKeys is entered at most once, from the loop and
\* before any write; from writeKeys the run only goes on to its second
\* write or returns, never back to the loop; and at most one private and
\* one public file are written, both of the same slot.
C13_WritingOnce ==
    /\ []OneSlotWritten
    /\ [][ /\ (pc # "writeSeckey" /\ pc' = "writeSeckey")
                => (pc = "scan" /\ writes = << >>)
           /\ pc = "writeSeckey" => pc' \in {"writePubkey", "done"}
           /\ pc = "writePubkey" => pc' = "done"
           /\ (pc = "done" /\ run' = run) => pc' = "done" ]_vars

\* Both files of the second slot were written and nothing else.
C13_Witness ==
    /\ Done /\ Len(writes) = 2
    /\ writes[1].path = sec(2) /\ writes[2].path = pub(2)
    /\ writes[2].outcome = "writeFail"
    /\ fs[sec(1)] = fs0[sec(1)] /\ fs[pub(1)] = fs0[pub(1)]

-----------------------------------------------------------------------------
\* The error Login has to return, read off what the run did: the message of
\* the stage that failed followed by the error of the failed call.
ExpectedError ==
    IF signer = 0 THEN <<"failed to generate keypair", "GenKeyPair">>
    ELSE IF pkt = 0 THEN <<"failed to generate SSH cert", "OidcAuth">>
    ELSE IF cert = 0 THEN <<"failed to generate SSH cert", "sshcert.New">>
    ELSE IF sshSigner = 0 THEN <<"failed to generate SSH cert", "NewSignerFromSigner">>
    ELSE IF signerMas = 0 THEN <<"failed to generate SSH cert", "NewSignerWithAlgorithms">>
    ELSE IF sshCert = NoCert THEN <<"failed to generate SSH cert", "SignCert">>
    ELSE IF seckeySshPem = << >> THEN <<"failed to generate SSH cert", "MarshalPrivateKey">>
    ELSE IF idx = 0 THEN <<"failed to write SSH keys to filesystem", "UserHomeDir">>
    ELSE IF writes = << >>
         THEN <<"failed to write SSH keys to filesystem",
                "no default ssh key file free for openpubkey">>
    ELSE IF writes[Len(writes)].outcome # "ok"
         THEN <<"failed to write SSH keys to filesystem",
                "WriteFile", writes[Len(writes)].path>>
    ELSE << >>

\* C14: Login returns nil exactly when every step succeeded and the private
\* and the public file of one slot were both written; otherwise it returns
\* the message of the stage that failed wrapped around the unchanged error
\* of the failed call.
C14_ErrorsSurface ==
    Done =>
        /\ ret = ExpectedError
        /\ ret = << >>
              <=> /\ ~StepMissing
                  /\ \E i \in Slots :
                        /\ Installed(i)
                        /\ writes[1] = [path |-> sec(i), outcome |-> "ok"]
                        /\ writes[2] = [path |-> pub(i), outcome |-> "ok"]
        /\ ret # << >> => Len(ret) >= 2

\* os.UserHomeDir failed after the certificate was made.
C14_Witness ==
    /\ Done
    /\ ~StepMissing
    /\ ret = <<"failed to write SSH keys to filesystem", "UserHomeDir">>
    /\ fs = fs0

-----------------------------------------------------------------------------
\* C15: the bytes a successful public write leaves in the file are the
\* marshalled certificate of this run's key without its final newline, one
\* space, and the marker: one line, in which ssh.ParseAuthorizedKey finds
\* the marker as the comment.
C15_PublicFileContent ==
    \A k \in 1..Len(writes) :
        (writes[k].path = args.pubkeyPath /\ writes[k].outcome = "ok")
            => LET data == fs[args.pubkeyPath].data
                   blob == MarshalAuthorizedKey(signer)
               IN  /\ blob[Len(blob)] = "\n"
                   /\ data = SubSeq(blob, 1, Len(blob) - 1) \o <<" ">> \o Marker
                   /\ \A j \in 1..Len(data) : data[j] \notin {"\n", "\r"}
                   /\ ~ParseAuthorizedKey(data).err
                   /\ ParseAuthorizedKey(data).comment = Marker

\* The public file of a slot that was free holds the certificate line.
C15_Witness ==
    /\ Done /\ ret = << >>
    /\ ~fs0[args.pubkeyPath].exists
    /\ fs[args.pubkeyPath].data = <<"T", " ", "B1", " ">> \o Marker

-----------------------------------------------------------------------------
\* Login is one sequential call: whenever it has a next step to take it
\* takes it.
FairSpec == Spec /\ WF_vars(Next)

\* The three results of the installer: success, no slot found, I/O error
\* of a write.
InstallerResults ==
    {<< >>} \cup {<<"failed to write SSH keys to filesystem",
                    "no default ssh key file free for openpubkey">>}
            \cup PlainWriteErrors

\* C16: the installer always terminates: the candidate index starts at the
\* first candidate and only grows, by one candidate at a time, no candidate
\* is examined twice, and every run that enters the loop reaches "done" with
\* exactly one of the results success, no slot found, I/O error.
C16_InstallerTerminates ==
    /\ [](/\ Len(examined) <= Len(Candidates)
          /\ \A k \in 1..Len(examined) : examined[k] = k
          /\ pc \in {"scan"} \cup Writing => idx \in 1..(Len(Candidates) + 1)
          /\ (Done /\ idx >= 1) => ret \in InstallerResults)
    /\ [][ /\ (pc = "UserHomeDir" /\ pc' = "scan") => idx' = 1
           /\ pc = "scan" => idx' \in {idx, idx + 1}
           /\ pc \in Writing => idx' = idx ]_vars
    /\ (pc = "scan" ~> pc = "done")

\* The loop went over both candidates and the run ended without a slot.
C16_Witness ==
    /\ Done /\ idx = Len(Candidates) + 1
    /\ examined = <<1, 2>>
    /\ ret \in InstallerResults /\ ret # << >>

-----------------------------------------------------------------------------
\* The run before this one wrote both files of slot i: they held its key
\* and its certificate, which no other run produces, when this run started.
PreviousRunWrote(i) ==
    /\ run > 1
    /\ fs0[sec(i)].exists /\ fs0[sec(i)].data = PemOf(run - 1)
    /\ fs0[pub(i)].exists
    /\ fs0[pub(i)].data = WithMarker(StripNewline(MarshalAuthorizedKey(run - 1)))

\* The run reached the end of the installer and no step before it, and no
\* os.WriteFile, failed.
RanClean == Done /\ ~StepMissing /\ idx >= 1 /\ AllWritesOk

-----------------------------------------------------------------------------
\* Candidate i was examined, writeKeys was called for it, and its public
\* file was not read: the branch of line 102.
TakenAsFree(i) == InSeq(examined, i) /\ ChosenAt(i) /\ pub(i) \notin reads

\* os.Open fails on the file for a reason other than its absence.
OpenDenied(f) == Open(f) \notin {"nil", "ErrNotExist"}

\* C18: a slot is taken through the free branch only when os.Open of its
\* private path fails with ErrNotExist.  A private or public path that
\* cannot be opened for another reason counts as existing: a slot with such
\* a private file is written only when its public file parses as owned, and
\* a slot with an existing private file and such a public file is not
\* written.
C18_FreeOnlyIfNotExist ==
    \A i \in Slots :
        /\ TakenAsFree(i) => Open(fs0[sec(i)]) = "ErrNotExist"
        /\ OpenDenied(fs0[sec(i)])
              => /\ fileExists(fs0[sec(i)])
                 /\ ~TakenAsFree(i)
                 /\ ~ParsesAsOwned(fs0[pub(i)]) => Untouched(i)
        /\ (fs0[sec(i)].exists /\ OpenDenied(fs0[pub(i)]))
              => /\ fileExists(fs0[pub(i)])
                 /\ Untouched(i)
                 /\ InSeq(examined, i) => pub(i) \in reads

C18_Witness ==
    /\ Done
    /\ OpenDenied(fs0[sec(1)])
    /\ fs0[pub(1)].exists /\ ~ParsesAsOwned(fs0[pub(1)])
    /\ Untouched(1)
    /\ TakenAsFree(2) /\ Installed(2)

-----------------------------------------------------------------------------
\* The statements of Login in program order: generate, acquire the proof,
\* bind, sign, format, install.
PipelineOrder ==
    <<"GenKeyPair", "OidcAuth", "sshcertNew", "NewSignerFromSigner",
      "NewSignerWithAlgorithms", "SignCert", "MarshalAuthorizedKey",
      "MarshalPrivateKey", "UserHomeDir", "scan", "writeSeckey", "writePubkey",
      "done">>

StageOf(p) == CHOOSE k \in 1..Len(PipelineOrder) : PipelineOrder[k] = p

\* Every result a step has produced comes from the one key pair of this
\* Login.
OneKeyPair ==
    /\ signer \in {0, run}
    /\ pkt \in {0, signer}
    /\ cert \in {0, pkt}
    /\ sshSigner \in {0, signer}
    /\ signerMas \in {0, sshSigner}
    /\ sshCert # NoCert => sshCert = [key |-> signer, signedBy |-> signer]
    /\ certBytes # << >> => certBytes = StripNewline(MarshalAuthorizedKey(signer))
    /\ seckeySshPem # << >> => seckeySshPem = PemOf(signer)
    /\ \A k \in 1..Len(writes) :
          writes[k].outcome = "ok" =>
              /\ signer # 0 /\ pkt = signer /\ sshCert.signedBy = signer
              /\ writes[k].path = args.seckeyPath
                    => fs[args.seckeyPath].data = PemOf(signer)
              /\ writes[k].path = args.pubkeyPath
                    => fs[args.pubkeyPath].data =
                          WithMarker(StripNewline(MarshalAuthorizedKey(pkt)))

\* C19: within one Login one key pair is generated; the steps run in program
\* order, each at most once and none again after it ran (only the loop over
\* the candidates stays at its statement); a result once produced is never
\* replaced; and the key pair given to OidcAuth is the one that signs the
\* certificate and whose private half is written to the private key file.
C19_OnePipelineOneKey ==
    /\ []OneKeyPair
    /\ [][ run' = run =>
             /\ StageOf(pc') >= StageOf(pc)
             /\ pc # "scan" => StageOf(pc') > StageOf(pc)
             /\ pc' # "done" => StageOf(pc') <= StageOf(pc) + 1
             /\ signer # 0 => signer' = signer
             /\ pkt # 0 => pkt' = pkt
             /\ cert # 0 => cert' = cert
             /\ sshSigner # 0 => sshSigner' = sshSigner
             /\ signerMas # 0 => signerMas' = signerMas
             /\ sshCert # NoCert => sshCert' = sshCert
             /\ certBytes # << >> => certBytes' = certBytes
             /\ seckeySshPem # << >> => seckeySshPem' = seckeySshPem ]_vars

C19_Witness ==
    /\ Done /\ run = MaxLogins
    /\ sshCert = [key |-> run, signedBy |-> run]
    /\ \E i \in Slots : /\ Installed(i)
                        /\ fs0[sec(i)].data = PemOf(run - 1)
                        /\ fs[sec(i)].data = PemOf(pkt)

====
